---- MODULE Spec2Model ----
(***************************************************************************)
(* A model of the ai-news pipeline: scripts/fetch_feeds.py (the Feed       *)
(* Fetcher and the Article Store) and scripts/build_site.py (the Site      *)
(* Builder).                                                               *)
(*                                                                         *)
(* Text is a sequence of one-character strings.  An HTML character         *)
(* reference of the input ("&lt;", "&nbsp;") is one element of the         *)
(* sequence; html.unescape turns it into the character it names.           *)
(***************************************************************************)
EXTENDS Integers, Sequences, FiniteSets, TLC

VARIABLES
    \* ---- the fetcher (fetch_feeds.py main) and its environment
    store,          \* the Article Store: file name (slug) -> file content
    source,         \* what each feed source served in this behaviour, None before
    stable,         \* the feed sources serve the same entries in every run
    api_key,        \* ANTHROPIC_API_KEY of the environment, None when unset
    api_up,         \* the summarization API answers; else its calls raise
    clock,          \* datetime.now(timezone.utc), in hours
    pc,             \* position of main: idle, fetch, entries, write, done
    rerun,          \* main ran to its end before this run
    existing_urls,  \* main's existing_urls set, shared with fetch_feed
    cutoff_date,    \* main's cutoff_date
    feedIdx,        \* index of feed_config in feeds
    parsed,         \* parsed.entries of the feed being fetched
    entryIdx,       \* index of entry in parsed.entries
    articles,       \* fetch_feed's articles list
    writeIdx,       \* index of article in main's inner loop
    total_new,      \* main's total_new
    \* ---- history of the current run, for stating properties
    store0,         \* the store as main found it
    trace,          \* events of the run, in order
    \* ---- truncate_description, as a function under test
    t_text, t_max, t_result, t_pc,
    \* ---- the site builder (build_site.py)
    b_store,        \* the files of the Article Store the builder finds
    b_articles,     \* articles, as load_articles returned them
    b_pages,        \* _site/article: page file -> the article rendered in it
    b_page_of,      \* history: the page file written for each article
    b_months,       \* the month groups of the archive page
    b_sitemap,      \* sitemap_entries
    b_pc            \* position of build_site

fetchVars == <<store, source, stable, api_key, api_up, clock, pc, rerun, existing_urls,
               cutoff_date, feedIdx, parsed, entryIdx, articles, writeIdx,
               total_new, store0, trace>>
truncVars == <<t_text, t_max, t_result, t_pc>>
buildVars == <<b_store, b_articles, b_pages, b_page_of, b_months, b_sitemap, b_pc>>
vars == <<fetchVars, truncVars, buildVars>>

None == "None"

\* The other components are not running.
TruncIdle ==
    /\ t_text = <<>>
    /\ t_max = 0
    /\ t_result = <<>>
    /\ t_pc = "idle"

BuildIdle ==
    /\ b_store = {}
    /\ b_articles = <<>>
    /\ b_pages = <<>>
    /\ b_page_of = <<>>
    /\ b_months = <<>>
    /\ b_sitemap = <<>>
    /\ b_pc = "idle"

(***************************************************************************)
(* Text helpers of fetch_feeds.py                                          *)
(***************************************************************************)
NBSP == "nbsp"

IsSpace(c) == c \in {" ", NBSP}

\* html.unescape on one element of the text.
UnescapeChar(c) ==
    CASE c = "&lt;"   -> "<"
      [] c = "&gt;"   -> ">"
      [] c = "&nbsp;" -> NBSP
      [] OTHER        -> c

unescape(s) == [i \in 1..Len(s) |-> UnescapeChar(s[i])]

\* Position of the first ">" of s at or after position i, 0 when there is none.
RECURSIVE FirstGt(_, _)
FirstGt(s, i) ==
    IF i > Len(s) THEN 0
    ELSE IF s[i] = ">" THEN i
    ELSE FirstGt(s, i + 1)

\* re.sub(r"<[^>]+>", "", text): leftmost matches, scanning left to right.
RECURSIVE RemoveTags(_)
RemoveTags(s) ==
    IF s = <<>> THEN <<>>
    ELSE IF Head(s) = "<" /\ FirstGt(s, 2) >= 3
         THEN RemoveTags(SubSeq(s, FirstGt(s, 2) + 1, Len(s)))
         ELSE <<Head(s)>> \o RemoveTags(Tail(s))

\* re.sub(r"\s+", " ", text): every run of whitespace becomes one space.
RECURSIVE CollapseSpace(_)
CollapseSpace(s) ==
    IF s = <<>> THEN <<>>
    ELSE IF IsSpace(Head(s))
         THEN IF Len(s) > 1 /\ IsSpace(s[2])
              THEN CollapseSpace(Tail(s))
              ELSE <<" ">> \o CollapseSpace(Tail(s))
         ELSE <<Head(s)>> \o CollapseSpace(Tail(s))

\* str.strip(): leading and trailing whitespace removed.
RECURSIVE LStrip(_)
LStrip(s) == IF s # <<>> /\ IsSpace(Head(s)) THEN LStrip(Tail(s)) ELSE s

RECURSIVE RStrip(_)
RStrip(s) ==
    IF s # <<>> /\ IsSpace(s[Len(s)]) THEN RStrip(SubSeq(s, 1, Len(s) - 1)) ELSE s

Strip(s) == LStrip(RStrip(s))

strip_html(text) ==
    IF text = <<>> THEN <<>>
    ELSE Strip(CollapseSpace(unescape(RemoveTags(text))))

\* text[:n]
Take(s, n) == SubSeq(s, 1, IF n < Len(s) THEN n ELSE Len(s))

\* Position of the last " " of s at or before position i, 0 when there is none.
RECURSIVE LastSpace(_, _)
LastSpace(s, i) ==
    IF i = 0 THEN 0
    ELSE IF s[i] = " " THEN i
    ELSE LastSpace(s, i - 1)

\* s.rsplit(" ", 1)[0]
RSplitHead(s) ==
    IF LastSpace(s, Len(s)) = 0 THEN s
    ELSE SubSeq(s, 1, LastSpace(s, Len(s)) - 1)

Ellipsis == <<".", ".", ".">>

truncate_description(text, max_chars) ==
    LET stripped == strip_html(text) IN
    IF Len(stripped) <= max_chars THEN stripped
    ELSE RSplitHead(Take(stripped, max_chars)) \o Ellipsis

\* str.lower() on one character.
LowerChar(c) ==
    CASE c = "A" -> "a"
      [] c = "B" -> "b"
      [] c = "U" -> "u"
      [] OTHER   -> c

\* \w of a regular expression, over the characters of the model's texts.
IsWordChar(c) ==
    c \in {"a", "b", "d", "e", "i", "l", "n", "t", "u", "5", "_"}

RECURSIVE KeepSlugChars(_)
KeepSlugChars(s) ==
    IF s = <<>> THEN <<>>
    ELSE IF IsWordChar(Head(s)) \/ IsSpace(Head(s)) \/ Head(s) = "-"
         THEN <<Head(s)>> \o KeepSlugChars(Tail(s))
         ELSE KeepSlugChars(Tail(s))

IsDashOrSpace(c) == c = "-" \/ IsSpace(c)

\* re.sub(r"[-\s]+", "-", text)
RECURSIVE CollapseDashes(_)
CollapseDashes(s) ==
    IF s = <<>> THEN <<>>
    ELSE IF IsDashOrSpace(Head(s))
         THEN IF Len(s) > 1 /\ IsDashOrSpace(s[2])
              THEN CollapseDashes(Tail(s))
              ELSE <<"-">> \o CollapseDashes(Tail(s))
         ELSE <<Head(s)>> \o CollapseDashes(Tail(s))

\* str.strip("-")
RECURSIVE StripDashes(_)
StripDashes(s) ==
    IF s # <<>> /\ Head(s) = "-" THEN StripDashes(Tail(s))
    ELSE IF s # <<>> /\ s[Len(s)] = "-" THEN StripDashes(SubSeq(s, 1, Len(s) - 1))
    ELSE s

SlugMax == 80

slugify(text) ==
    LET unescaped == unescape(text)
        lowered == [i \in 1..Len(unescaped) |-> LowerChar(unescaped[i])]
    IN Take(StripDashes(CollapseDashes(KeepSlugChars(lowered))), SlugMax)

(***************************************************************************)
(* article_id: the first 12 hex digits of the md5 digest of the url.  The  *)
(* digest of each url of the model is given as its 32 hex digits; two urls *)
(* of the model have digests that agree on their first 12 digits.          *)
(***************************************************************************)
RECURSIVE Rep(_, _)
Rep(c, n) == IF n = 0 THEN <<>> ELSE <<c>> \o Rep(c, n - 1)

IdLen == 12

Md5Hex(url) ==
    CASE url = "u1" -> Rep("a", 12) \o Rep("1", 20)
      [] url = "u2" -> Rep("b", 12) \o Rep("2", 20)
      [] url = "u3" -> Rep("a", 12) \o Rep("3", 20)
      [] OTHER      -> Rep("c", 12) \o Rep("4", 20)

article_id(url) == Take(Md5Hex(url), IdLen)

(***************************************************************************)
(* Dates.  Time is counted in hours.  A datetime is its wall-clock reading *)
(* (wall) and its utcoffset (off); the instant it denotes is wall - off.   *)
(* A date string of a feed is given by what dateutil's parser makes of it: *)
(* an error, or a wall-clock reading with or without a timezone.           *)
(***************************************************************************)
NoValue == [kind |-> "none"]
BadDate == [kind |-> "bad"]
DateWithTz(w, o) == [kind |-> "ok", wall |-> w, naive |-> FALSE, off |-> o]
NaiveDate(w) == [kind |-> "ok", wall |-> w, naive |-> TRUE, off |-> 0]

UtcTime(h) == [wall |-> h, off |-> 0]

Instant(dt) == dt.wall - dt.off

\* Python truthiness of a field value: None and "" are false.
Truthy(v) == v.kind # "none"

\* entry.get(key, default)
EntryGet(e, key, default) == IF key \in DOMAIN e THEN e[key] ELSE default

\* lines 138-139: a naive datetime is taken to be UTC.
WithUtcDefault(d) == [wall |-> d.wall, off |-> IF d.naive THEN 0 ELSE d.off]

\* A variant of OlderThanCutoff that also drops an entry dated at the cutoff.
OlderOrAtCutoff(pub_date, cutoff) == Instant(pub_date) <= Instant(cutoff)

\* line 140: pub_date < cutoff_date, a comparison of instants.
OlderThanCutoff(pub_date, cutoff) == Instant(pub_date) < Instant(cutoff)

\* strftime("%Y-%m-%d"): the calendar day of the wall-clock reading.
FormatDay(dt) == dt.wall \div 24

\* strftime("%Y-%m-%dT%H:%M:%SZ"): the wall-clock reading, then a literal Z.
FormatDateZ(dt) == [ymd |-> dt.wall \div 24, hms |-> dt.wall % 24, suffix |-> "Z"]

CutoffDays == 7

DescMax == 300

Untitled == <<"U", "n", "t", "i", "t", "l", "e", "d">>

(***************************************************************************)
(* The feed configuration (feeds.yml) and what the feed sources serve.     *)
(***************************************************************************)
load_feeds ==
    << [name |-> "Feed A", url |-> "https://a.example/rss", category |-> "research"],
       [name |-> "Feed B", url |-> "https://b.example/rss"] >>

NowStart == 17 * 24 - 1
MaxTicks == 1
MaxEntries == 2

\* The entries a feed may serve.  NowStart is the last hour of a day.
\* u1 and u3 are different links with the same article_id, and in a run at
\* NowStart the first two entries have the same slugified title and day.
EntryPool ==
    { [link |-> "u1", title |-> <<"A", "!">>,
       published |-> NaiveDate(NowStart - 10),
       updated |-> DateWithTz(NowStart - 300, 0),
       summary |-> <<"<", "b", ">", "a", " ", "b">>],
      \* a date that does not parse
      [link |-> "u3", title |-> <<"a">>,
       published |-> NoValue, updated |-> BadDate,
       summary |-> <<>>, description |-> <<"a">>],
      \* an offset of +9h: the instant is the cutoff of a run started at
      \* NowStart, and falls on the day before the wall-clock reading
      [link |-> "u2",
       published |-> NoValue,
       updated |-> DateWithTz(NowStart - CutoffDays * 24 + 9, 9)],
      \* no link
      [title |-> <<"a">>, published |-> NoValue, updated |-> NoValue] }

RECURSIVE EntrySeqs(_)
EntrySeqs(n) ==
    IF n = 0 THEN {<<>>}
    ELSE {<<e>> \o s : e \in EntryPool, s \in EntrySeqs(n - 1)}

\* What feedparser.parse may give for one feed: an exception, or a result
\* with its bozo flag (set for a feed with at most one entry) and its entries.
Responses ==
    {[raised |-> TRUE, bozo |-> FALSE, entries |-> <<>>]} \cup
    {[raised |-> FALSE, bozo |-> FALSE, entries |-> es] :
        es \in UNION {EntrySeqs(n) : n \in 0..MaxEntries}} \cup
    {[raised |-> FALSE, bozo |-> TRUE, entries |-> es] :
        es \in UNION {EntrySeqs(n) : n \in 0..1}}

(***************************************************************************)
(* The Article Store.  A file is a record: its frontmatter metadata and    *)
(* its content, or a file frontmatter cannot load.                         *)
(***************************************************************************)
MalformedFile == [malformed |-> TRUE]

ForeignStore ==
    (<<0, <<"r">>, <<>>>> :> MalformedFile) @@
    (<<0, <<"n">>, <<>>>> :> [malformed |-> FALSE, title |-> <<"n">>, content |-> <<>>])

EmptyStore == [f \in {} |-> MalformedFile]

get_existing_urls(st) ==
    {st[f].url : f \in {g \in DOMAIN st : ~st[g].malformed /\ "url" \in DOMAIN st[g]}}

\* summarize_with_claude: None without a key (or the library), else the
\* reply of the API, None when the call raised.
summarize_with_claude(key, reply) ==
    IF key = None THEN NoValue
    ELSE IF reply.raised THEN NoValue
    ELSE [kind |-> IF reply.text = <<>> THEN "none" ELSE "text", text |-> reply.text]

\* What the API call does, when it is made: it raises while the API is down.
ApiReply(up) ==
    IF up THEN [raised |-> FALSE, text |-> <<"s">>]
    ELSE [raised |-> TRUE, text |-> <<>>]

(***************************************************************************)
(* main and fetch_feed, one step per loop iteration.                       *)
(***************************************************************************)
Unserved == [unserved |-> TRUE]

Event(kind, feed, url) == [ev |-> kind, feed |-> feed, url |-> url]

InitFetchVars ==
    /\ store = ForeignStore
    /\ source = [i \in 1..Len(load_feeds) |-> Unserved]
    /\ api_key \in {None, "sk-key"}
    /\ api_up \in IF api_key = None THEN {FALSE} ELSE BOOLEAN
    /\ clock = NowStart
    /\ pc = "idle"
    /\ rerun = FALSE
    /\ existing_urls = {}
    /\ cutoff_date = UtcTime(0)
    /\ feedIdx = 0
    /\ parsed = <<>>
    /\ entryIdx = 0
    /\ articles = <<>>
    /\ writeIdx = 0
    /\ total_new = 0
    /\ store0 = store
    /\ trace = <<>>

\* The fetcher is not running: the state of the fetcher's variables under the
\* specifications of the other components.
FetchIdle ==
    /\ store = EmptyStore
    /\ source = [i \in 1..Len(load_feeds) |-> Unserved]
    /\ stable = TRUE
    /\ api_key = None
    /\ api_up = FALSE
    /\ clock = NowStart
    /\ pc = "idle"
    /\ rerun = FALSE
    /\ existing_urls = {}
    /\ cutoff_date = UtcTime(0)
    /\ feedIdx = 0
    /\ parsed = <<>>
    /\ entryIdx = 0
    /\ articles = <<>>
    /\ writeIdx = 0
    /\ total_new = 0
    /\ store0 = store
    /\ trace = <<>>

\* Time passes.
Tick ==
    /\ UNCHANGED <<truncVars, buildVars>>
    /\ clock < NowStart + MaxTicks
    /\ clock' = clock + 1
    /\ UNCHANGED <<store, source, stable, api_key, api_up, pc, rerun, existing_urls,
                   cutoff_date, feedIdx, parsed, entryIdx, articles, writeIdx,
                   total_new, store0, trace>>

\* main, lines 193-197.
StartRun ==
    /\ UNCHANGED <<truncVars, buildVars>>
    /\ pc \in {"idle", "done"}
    /\ rerun' = (pc = "done")
    /\ existing_urls' = get_existing_urls(store)
    /\ cutoff_date' = UtcTime(clock - CutoffDays * 24)
    /\ total_new' = 0
    /\ feedIdx' = 1
    /\ pc' = "fetch"
    /\ store0' = store
    /\ trace' = <<>>
    /\ parsed' = <<>>
    /\ entryIdx' = 0
    /\ articles' = <<>>
    /\ writeIdx' = 0
    /\ UNCHANGED <<store, source, stable, api_key, api_up, clock>>

\* lines 117-125: the retrieval failed.
FeedFailed(r) == r.raised \/ (r.bozo /\ r.entries = <<>>)

\* A variant of PcOnFeedFailure in which the failure ends the run.
PcOnFeedFailureRaise == "crashed"

\* Where main goes on after a failed retrieval: fetch_feed returned [], and
\* main runs its (empty) loop over the articles.
PcOnFeedFailure == "write"

\* What the source of feed i may serve now: what it served before, when the
\* sources are stable.
Serves(i) == IF "unserved" \in DOMAIN source[i] THEN Responses ELSE {source[i]}

\* fetch_feed, lines 112-127: the retrieval of feed feedIdx.
FetchFeed ==
    /\ UNCHANGED <<truncVars, buildVars>>
    /\ pc = "fetch"
    /\ feedIdx <= Len(load_feeds)
    /\ \E r \in Serves(feedIdx) :
        /\ source' = IF stable THEN [source EXCEPT ![feedIdx] = r] ELSE source
        /\ articles' = <<>>
        /\ IF FeedFailed(r)
           THEN /\ pc' = PcOnFeedFailure
                /\ parsed' = <<>>
                /\ entryIdx' = 0
                /\ writeIdx' = 1
                /\ trace' = Append(trace, Event("failed", feedIdx, ""))
           ELSE /\ pc' = "entries"
                /\ parsed' = r.entries
                /\ entryIdx' = 1
                /\ writeIdx' = 0
                /\ trace' = Append(trace, Event("fetched", feedIdx, ""))
    /\ UNCHANGED <<store, stable, api_key, api_up, clock, rerun, existing_urls,
                   cutoff_date, feedIdx, total_new, store0>>

\* line 130: the dedupe filter.
SkipLink(link, seen) == link = "" \/ link \in seen

\* line 134
date_str(e) ==
    IF Truthy(EntryGet(e, "published", NoValue))
    THEN e.published
    ELSE EntryGet(e, "updated", NoValue)

\* lines 135-145: the publish date of an entry, or a skip.
ResolveDate(e, cutoff, now) ==
    LET ds == date_str(e) IN
    IF Truthy(ds)
    THEN IF ds.kind = "ok"
         THEN IF OlderThanCutoff(WithUtcDefault(ds), cutoff)
              THEN [skip |-> TRUE, pub_date |-> WithUtcDefault(ds)]
              ELSE [skip |-> FALSE, pub_date |-> WithUtcDefault(ds)]
         ELSE [skip |-> FALSE, pub_date |-> UtcTime(now)]
    ELSE [skip |-> FALSE, pub_date |-> UtcTime(now)]

\* line 148
Description(e) ==
    IF "summary" \in DOMAIN e /\ e.summary # <<>> THEN e.summary
    ELSE IF "description" \in DOMAIN e /\ e.description # <<>> THEN e.description
    ELSE <<>>

\* lines 147-167: the Article of an entry.
MakeArticle(e, feed_config, pub_date, key, reply) ==
    LET title == strip_html(EntryGet(e, "title", Untitled))
        description_clean == truncate_description(Description(e), DescMax)
        summary == summarize_with_claude(key, reply)
        aid == article_id(e.link)
    IN [title |-> title,
        url |-> e.link,
        source |-> feed_config.name,
        category |-> EntryGet(feed_config, "category", "general"),
        date |-> FormatDateZ(pub_date),
        summary |-> IF Truthy(summary) THEN summary.text ELSE description_clean,
        slug |-> <<FormatDay(pub_date), slugify(title), aid>>]

\* A variant of AddSeen that forgets the link.
AddSeenNot(seen, link) == seen

\* line 169
AddSeen(seen, link) == seen \cup {link}

\* lines 130 and 140: the entry is passed over.
Skipped(e, seen, cutoff, now) ==
    SkipLink(EntryGet(e, "link", ""), seen) \/ ResolveDate(e, cutoff, now).skip

\* fetch_feed, lines 128-145: an iteration of the loop over the entries that
\* ends in a continue.
SkipEntry ==
    /\ UNCHANGED <<truncVars, buildVars>>
    /\ pc = "entries"
    /\ entryIdx <= Len(parsed)
    /\ Skipped(parsed[entryIdx], existing_urls, cutoff_date, clock)
    /\ entryIdx' = entryIdx + 1
    /\ UNCHANGED <<store, source, stable, api_key, api_up, clock, pc, rerun,
                   existing_urls, cutoff_date, feedIdx, parsed, articles,
                   writeIdx, total_new, store0, trace>>

\* fetch_feed, lines 128-169: an iteration of the loop over the entries that
\* appends an Article.
ProduceArticle ==
    /\ UNCHANGED <<truncVars, buildVars>>
    /\ pc = "entries"
    /\ entryIdx <= Len(parsed)
    /\ ~Skipped(parsed[entryIdx], existing_urls, cutoff_date, clock)
    /\ articles' = Append(articles,
          MakeArticle(parsed[entryIdx], load_feeds[feedIdx],
                      ResolveDate(parsed[entryIdx], cutoff_date, clock).pub_date,
                      api_key, ApiReply(api_up)))
    /\ existing_urls' = AddSeen(existing_urls, parsed[entryIdx].link)
    /\ trace' = Append(trace, Event("produce", feedIdx, parsed[entryIdx].link))
    /\ entryIdx' = entryIdx + 1
    /\ UNCHANGED <<store, source, stable, api_key, api_up, clock, pc, rerun,
                   cutoff_date, feedIdx, parsed, writeIdx, total_new, store0>>

\* fetch_feed, lines 171-172: the list goes back to main.
ReturnArticles ==
    /\ UNCHANGED <<truncVars, buildVars>>
    /\ pc = "entries"
    /\ entryIdx > Len(parsed)
    /\ pc' = "write"
    /\ writeIdx' = 1
    /\ UNCHANGED <<store, source, stable, api_key, api_up, clock, rerun, existing_urls,
                   cutoff_date, feedIdx, parsed, entryIdx, articles, total_new,
                   store0, trace>>

\* write_article, lines 179-187
Post(article) ==
    [malformed |-> FALSE,
     content |-> article.summary,
     title |-> article.title,
     url |-> article.url,
     source |-> article.source,
     category |-> article.category,
     date |-> article.date,
     slug |-> article.slug]

\* A variant of NextToWrite that takes the articles last to first.
NextToWriteReversed(arts, i) == arts[Len(arts) - i + 1]

\* main, line 200: the article of this iteration.
NextToWrite(arts, i) == arts[i]

\* write_article, line 188: the file is written, an existing one replaced.
WriteFile(st, name, content) ==
    [f \in DOMAIN st \cup {name} |-> IF f = name THEN content ELSE st[f]]

\* main, lines 200-203: one iteration of the loop over the articles.
WriteArticle ==
    /\ UNCHANGED <<truncVars, buildVars>>
    /\ pc = "write"
    /\ writeIdx <= Len(articles)
    /\ LET article == NextToWrite(articles, writeIdx) IN
        /\ store' = WriteFile(store, article.slug, Post(article))
        /\ trace' = Append(trace, Event("write", feedIdx, article.url))
    /\ total_new' = total_new + 1
    /\ writeIdx' = writeIdx + 1
    /\ UNCHANGED <<source, stable, api_key, api_up, clock, pc, rerun, existing_urls,
                   cutoff_date, feedIdx, parsed, entryIdx, articles, store0>>

\* main, line 198: the next feed.
NextFeed ==
    /\ UNCHANGED <<truncVars, buildVars>>
    /\ pc = "write"
    /\ writeIdx > Len(articles)
    /\ feedIdx' = feedIdx + 1
    /\ pc' = "fetch"
    /\ UNCHANGED <<store, source, stable, api_key, api_up, clock, rerun, existing_urls,
                   cutoff_date, parsed, entryIdx, articles, writeIdx, total_new,
                   store0, trace>>

\* main, lines 205-206
Finish ==
    /\ UNCHANGED <<truncVars, buildVars>>
    /\ pc = "fetch"
    /\ feedIdx > Len(load_feeds)
    /\ pc' = "done"
    /\ UNCHANGED <<store, source, stable, api_key, api_up, clock, rerun, existing_urls,
                   cutoff_date, feedIdx, parsed, entryIdx, articles, writeIdx,
                   total_new, store0, trace>>

\* The feed sources may serve something else at every retrieval.
Init == InitFetchVars /\ stable = FALSE /\ TruncIdle /\ BuildIdle

\* The feed sources serve the same entries at every retrieval.
InitStable == InitFetchVars /\ stable = TRUE /\ TruncIdle /\ BuildIdle

Next ==
    \/ StartRun
    \/ FetchFeed
    \/ SkipEntry
    \/ ProduceArticle
    \/ ReturnArticles
    \/ WriteArticle
    \/ NextFeed
    \/ Finish
    \/ Tick

Spec == Init /\ [][Next]_vars

SpecStable == InitStable /\ [][Next]_vars

(***************************************************************************)
(* Properties of the fetcher.                                              *)
(***************************************************************************)
ArticleFiles(st) == {f \in DOMAIN st : ~st[f].malformed /\ "url" \in DOMAIN st[f]}

Produced == SelectSeq(trace, LAMBDA ev : ev.ev = "produce")
Written == SelectSeq(trace, LAMBDA ev : ev.ev = "write")
Retrieved == SelectSeq(trace, LAMBDA ev : ev.ev \in {"fetched", "failed"})

\* C1: no two article files of the store carry the same url.
C1_UniqueUrls ==
    \A f, g \in ArticleFiles(store) : store[f].url = store[g].url => f = g

\* In a later run the second feed served a link that an earlier run stored and
\* a link that the first feed produced in this run; both entries were processed
\* and neither gave an article.
C1_Witness ==
    /\ pc = "entries"
    /\ rerun
    /\ feedIdx = 2
    /\ Len(parsed) = 2
    /\ entryIdx = 3
    /\ EntryGet(parsed[1], "link", "") = "u2"
    /\ EntryGet(parsed[2], "link", "") = "u3"
    /\ \E f \in ArticleFiles(store0) : store0[f].url = "u2"
    /\ \E j \in DOMAIN trace :
         trace[j].ev = "write" /\ trace[j].url = "u3" /\ trace[j].feed = 1
    /\ articles = <<>>
    /\ \E f, g \in ArticleFiles(store) : store[f].url = "u2" /\ store[g].url = "u3"

\* C2: the store is append-only: a step never changes or removes a file
\* that exists, so every write creates a file that did not exist.
C2_AppendOnly ==
    [][\A f \in DOMAIN store : f \in DOMAIN store' /\ store'[f] = store[f]]_vars

\* C3: a run against the store an earlier run left, with the feed sources
\* serving the same entries as in that run, writes nothing.
C3_Idempotent ==
    (stable /\ rerun /\ pc = "done") => (total_new = 0 /\ store = store0)

\* C4: an entry with a non-empty link not seen before is skipped if and only
\* if its published (else updated) date parses and is strictly older than
\* the cutoff; an entry without a date that parses gets the current time.
C4_CutoffFilter ==
    [][(pc = "entries" /\ entryIdx' = entryIdx + 1) =>
        LET e == parsed[entryIdx]
            link == IF "link" \in DOMAIN e THEN e.link ELSE ""
            ds == IF "published" \in DOMAIN e /\ e.published.kind # "none"
                  THEN e.published
                  ELSE IF "updated" \in DOMAIN e THEN e.updated ELSE NoValue
            parses == ds.kind = "ok"
            older == IF parses
                     THEN ds.wall - (IF ds.naive THEN 0 ELSE ds.off)
                            < cutoff_date.wall - cutoff_date.off
                     ELSE FALSE
            skipped == articles' = articles
        IN (link # "" /\ link \notin existing_urls) =>
             /\ skipped <=> older
             /\ (~skipped /\ ~parses) =>
                  articles'[Len(articles')].date =
                    [ymd |-> clock \div 24, hms |-> clock % 24, suffix |-> "Z"]
    ]_vars

\* An entry dated exactly at the cutoff was included, and so was an entry
\* whose date does not parse.
C4_Witness ==
    /\ pc = "write"
    /\ Len(articles) = 2
    /\ articles[1].url = "u2"
    /\ articles[1].title = Untitled
    /\ cutoff_date = UtcTime(NowStart - CutoffDays * 24)
    /\ articles[2].url = "u3"
    /\ articles[2].date = FormatDateZ(UtcTime(clock))

\* The guards of the steps of a run: main has a next step to take.
RunCanStep ==
    \/ pc = "fetch" /\ feedIdx <= Len(load_feeds) /\ Serves(feedIdx) # {}
    \/ pc = "fetch" /\ feedIdx > Len(load_feeds)
    \/ pc = "entries" /\ entryIdx <= Len(parsed)
    \/ pc = "entries" /\ entryIdx > Len(parsed)
    \/ pc = "write" /\ writeIdx <= Len(articles)
    \/ pc = "write" /\ writeIdx > Len(articles)

\* C5: a failed retrieval yields no article and does not end the run: the
\* run can always take its next step until it is done, every feed of the
\* configuration is retrieved in order, and what was produced is written.
C5_FailureIsolation ==
    /\ pc \notin {"idle", "done"} => RunCanStep
    /\ \A i \in DOMAIN trace : trace[i].ev = "failed" =>
         \A j \in DOMAIN trace :
            trace[j].ev \in {"produce", "write"} => trace[j].feed # trace[i].feed
    /\ pc = "done" =>
         /\ Len(Retrieved) = Len(load_feeds)
         /\ \A i \in DOMAIN Retrieved : Retrieved[i].feed = i
         /\ Len(Written) = Len(Produced)
         /\ total_new = Len(Produced)

\* The first feed failed, the second feed's article was written, and the
\* run is done.
C5_Witness ==
    /\ pc = "done"
    /\ Len(trace) >= 3
    /\ trace[1].ev = "failed"
    /\ trace[Len(trace)].ev = "write"
    /\ trace[Len(trace)].feed = 2

\* C6 as stated: an article is written before any later entry of the run
\* is processed into an article.
C6_WrittenBeforeNextEntry ==
    \A i, j \in DOMAIN trace :
        (i < j /\ trace[i].ev = "produce" /\ trace[j].ev = "produce") =>
            \E k \in i..j : trace[k].ev = "write" /\ trace[k].url = trace[i].url

\* C6, amended: the articles are written in the order they were produced;
\* the articles of a feed are written after fetch_feed has processed all
\* the entries of that feed, and before any entry of a later feed is
\* processed.
C6_WrittenPerFeedInOrder ==
    /\ Len(Written) <= Len(Produced)
    /\ \A k \in DOMAIN Written :
         Written[k].url = Produced[k].url /\ Written[k].feed = Produced[k].feed
    /\ \A i, j \in DOMAIN trace :
         (i < j /\ trace[i].ev = "write" /\ trace[j].ev = "produce") =>
            trace[i].feed < trace[j].feed
    /\ \A i, j \in DOMAIN trace :
         (i < j /\ trace[i].ev = "produce" /\ trace[j].ev = "produce"
               /\ trace[i].feed < trace[j].feed) =>
            \E k \in i..j : trace[k].ev = "write" /\ trace[k].url = trace[i].url

\* The first feed gave two articles, written after both were produced, then
\* the second feed gave one.
C6_Witness ==
    /\ pc = "done"
    /\ Len(trace) = 8
    /\ trace[2].ev = "produce" /\ trace[3].ev = "produce"
    /\ trace[4].ev = "write" /\ trace[5].ev = "write"
    /\ trace[7].ev = "produce" /\ trace[8].ev = "write"

\* C8: the stored date, read as the UTC time its Z suffix says it is, and
\* the day at the head of the slug are the instant of the entry's parsed
\* publish date.
C8_DateIsUtc ==
    [][(pc = "entries" /\ Len(articles') = Len(articles) + 1) =>
        LET e == parsed[entryIdx]
            ds == IF "published" \in DOMAIN e /\ e.published.kind # "none"
                  THEN e.published
                  ELSE IF "updated" \in DOMAIN e THEN e.updated ELSE NoValue
            a == articles'[Len(articles')]
        IN ds.kind = "ok" =>
             LET instant == ds.wall - (IF ds.naive THEN 0 ELSE ds.off) IN
             /\ a.date.ymd * 24 + a.date.hms = instant
             /\ a.date.suffix = "Z"
             /\ a.slug[1] = instant \div 24
    ]_vars

(***************************************************************************)
(* truncate_description under test: the input text and max_chars are drawn *)
(* from bounded sets, one step applies the function.                       *)
(***************************************************************************)
MaxTextLen == 4
MaxChars == 3

TextAlphabet == {"a", " ", "<", ">", "&nbsp;", "&lt;"}

RECURSIVE TextsOfLen(_)
TextsOfLen(n) ==
    IF n = 0 THEN {<<>>}
    ELSE {<<c>> \o s : c \in TextAlphabet, s \in TextsOfLen(n - 1)}

Texts == UNION {TextsOfLen(n) : n \in 0..MaxTextLen}

InitTrunc ==
    /\ t_text \in Texts
    /\ t_max \in 0..MaxChars
    /\ t_result = <<>>
    /\ t_pc = "call"
    /\ FetchIdle
    /\ BuildIdle

Truncate ==
    /\ t_pc = "call"
    /\ t_result' = truncate_description(t_text, t_max)
    /\ t_pc' = "returned"
    /\ UNCHANGED <<t_text, t_max>>
    /\ UNCHANGED <<fetchVars, buildVars>>

NextTrunc == Truncate

SpecTrunc == InitTrunc /\ [][NextTrunc]_vars

\* A prefix of length k of text t ends at a word boundary: it is not followed
\* by a character of the word it ends in.
AtWordBoundary(t, k) ==
    \/ k = 0
    \/ k = Len(t)
    \/ t[k] = " "
    \/ t[k + 1] = " "

\* C7: the result of truncate_description is at most max_chars + 3 long, is
\* the stripped text when that fits in max_chars, and otherwise is "..."
\* after a prefix of the stripped text that ends at a word boundary.
C7_Truncate ==
    t_pc = "returned" =>
        LET stripped == strip_html(t_text)
            n == Len(t_result) - 3
        IN /\ Len(t_result) <= t_max + 3
           /\ Len(stripped) <= t_max => t_result = stripped
           /\ Len(stripped) > t_max =>
                /\ n >= 0
                /\ SubSeq(t_result, n + 1, n + 3) = Ellipsis
                /\ SubSeq(t_result, 1, n) = SubSeq(stripped, 1, n)
                /\ AtWordBoundary(stripped, n)
(***************************************************************************)
(* build_site.py.  A string the builder compares or takes apart is a       *)
(* sequence of characters; slugs and titles, which it only copies, are     *)
(* strings.                                                                *)
(***************************************************************************)
SITE_URL == "https://elloloop.github.io/ai-news"

\* The code point of a character, for the characters of the model.
Code(c) ==
    CASE c = "-" -> 45 [] c = "." -> 46 [] c = "/" -> 47
      [] c = "0" -> 48 [] c = "1" -> 49 [] c = "2" -> 50 [] c = "3" -> 51
      [] c = "4" -> 52 [] c = "5" -> 53 [] c = "6" -> 54 [] c = "7" -> 55
      [] c = "8" -> 56 [] c = "9" -> 57 [] c = ":" -> 58
      [] c = "T" -> 84 [] c = "Z" -> 90
      [] c = "a" -> 97 [] c = "b" -> 98 [] c = "c" -> 99 [] c = "d" -> 100
      [] c = "e" -> 101 [] c = "f" -> 102 [] c = "m" -> 109 [] c = "n" -> 110

\* s < t, as Python compares two strings.
RECURSIVE StrLess(_, _)
StrLess(s, t) ==
    IF t = <<>> THEN FALSE
    ELSE IF s = <<>> THEN TRUE
    ELSE IF Head(s) = Head(t) THEN StrLess(Tail(s), Tail(t))
    ELSE Code(Head(s)) < Code(Head(t))

\* sorted(CONTENT_DIR.glob("*.md"), reverse=True): the files, by name, last first.
RECURSIVE SortedFilesReversed(_)
SortedFilesReversed(files) ==
    IF files = {} THEN <<>>
    ELSE LET last == CHOOSE f \in files :
                        \A g \in files : g = f \/ StrLess(g.name, f.name)
         IN <<last>> \o SortedFilesReversed(files \ {last})

\* lines 26-28: the article of a file; the body joins the metadata.
LoadedArticle(file) == [k \in DOMAIN file.meta \cup {"body"} |->
                            IF k = "body" THEN file.body ELSE file.meta[k]]

\* lines 25-31: a file frontmatter cannot load is passed over.
RECURSIVE LoadAll(_)
LoadAll(files) ==
    IF files = <<>> THEN <<>>
    ELSE IF Head(files).malformed THEN LoadAll(Tail(files))
    ELSE <<LoadedArticle(Head(files))>> \o LoadAll(Tail(files))

\* a.get(key, default)
Get(a, key, default) == IF key \in DOMAIN a THEN a[key] ELSE default

\* line 33: the sort key.
DateKey(a) == Get(a, "date", <<>>)

\* Insertion into a list kept in descending order of key, after the
\* elements with an equal key: list.sort(reverse=True) is stable.
RECURSIVE InsertDesc(_, _)
InsertDesc(sorted, a) ==
    IF sorted = <<>> THEN <<a>>
    ELSE IF StrLess(DateKey(Head(sorted)), DateKey(a))
         THEN <<a>> \o sorted
         ELSE <<Head(sorted)>> \o InsertDesc(Tail(sorted), a)

RECURSIVE SortByDateDesc(_, _)
SortByDateDesc(done, rest) ==
    IF rest = <<>> THEN done
    ELSE SortByDateDesc(InsertDesc(done, Head(rest)), Tail(rest))

load_articles(files) == SortByDateDesc(<<>>, LoadAll(SortedFilesReversed(files)))

IsDigit(c) == c \in {"0", "1", "2", "3", "4", "5", "6", "7", "8", "9"}

\* line 86: datetime.fromisoformat(date_str.replace("Z", "+00:00")) succeeds;
\* of the strings of the model, on those of the form YYYY-MM-DDTHH:MM:SSZ.
IsoParses(s) ==
    /\ Len(s) = 20
    /\ \A i \in {1, 2, 3, 4, 6, 7, 9, 10, 12, 13, 15, 16, 18, 19} : IsDigit(s[i])
    /\ s[5] = "-" /\ s[8] = "-" /\ s[11] = "T"
    /\ s[14] = ":" /\ s[17] = ":" /\ s[20] = "Z"

\* lines 84-89: the month group of an article.
MonthKey(a) ==
    LET ds == Get(a, "date", <<>>) IN
    IF IsoParses(ds) THEN SubSeq(ds, 1, 7) ELSE <<"U", "n", "k", "n", "o", "w", "n">>

\* lines 75-76: the page file of an article.
PageFile(a) == <<"article", Get(a, "slug", "untitled"), ".html">>

\* lines 99-101: the sitemap entry of an article.
SitemapEntry(a) ==
    [url |-> <<SITE_URL, "article", Get(a, "slug", ""), ".html">>, priority |-> "0.6"]

\* The address at which the site serves a file of the output tree.
ServedAt(file) == <<SITE_URL>> \o file

D_Jan == <<"2", "0", "2", "4", "-", "0", "1", "-", "0", "5", "T",
           "1", "0", ":", "0", "0", ":", "0", "0", "Z">>
D_Feb == <<"2", "0", "2", "4", "-", "0", "2", "-", "0", "1", "T",
           "0", "8", ":", "0", "0", ":", "0", "0", "Z">>
D_Bad == <<"n", "/", "a">>

MdName(c) == <<c, ".", "m", "d">>

\* The files the builder may find in the store.
FilePool ==
    { [name |-> MdName("a"), malformed |-> FALSE, body |-> "x",
       meta |-> [title |-> "t1", slug |-> "s1", date |-> D_Jan, category |-> "research"]],
      [name |-> MdName("b"), malformed |-> FALSE, body |-> "x",
       meta |-> [title |-> "t2", slug |-> "s2", date |-> D_Feb]],
      [name |-> MdName("c"), malformed |-> FALSE, body |-> "x",
       meta |-> [title |-> "t3", slug |-> "s3"]],
      [name |-> MdName("d"), malformed |-> FALSE, body |-> "x",
       meta |-> [title |-> "t4", date |-> D_Bad]],
      [name |-> MdName("e"), malformed |-> TRUE, body |-> "", meta |-> [title |-> ""]],
      [name |-> MdName("f"), malformed |-> FALSE, body |-> "x",
       meta |-> [title |-> "t6", date |-> D_Jan]] }

MaxFiles == 3

InitBuild ==
    /\ b_store \in {fs \in SUBSET FilePool : Cardinality(fs) <= MaxFiles}
    /\ b_articles = <<>>
    /\ b_pages = <<>>
    /\ b_page_of = <<>>
    /\ b_months = <<>>
    /\ b_sitemap = <<>>
    /\ b_pc = "load"
    /\ FetchIdle
    /\ TruncIdle

\* build_site, line 44
LoadArticles ==
    /\ b_pc = "load"
    /\ b_articles' = load_articles(b_store)
    /\ b_pc' = "pages"
    /\ UNCHANGED <<b_store, b_pages, b_page_of, b_months, b_sitemap>>
    /\ UNCHANGED <<fetchVars, truncVars>>

\* The page files after the pages of the first n articles were written, a
\* later page replacing an earlier one of the same name.
RECURSIVE PagesAfter(_, _)
PagesAfter(arts, n) ==
    IF n = 0 THEN [f \in {} |-> arts]
    ELSE LET before == PagesAfter(arts, n - 1) IN
         [f \in DOMAIN before \cup {PageFile(arts[n])} |->
             IF f = PageFile(arts[n]) THEN arts[n] ELSE before[f]]

\* build_site, lines 69-77
BuildArticlePages ==
    /\ b_pc = "pages"
    /\ b_pages' = PagesAfter(b_articles, Len(b_articles))
    /\ b_page_of' = [i \in 1..Len(b_articles) |-> PageFile(b_articles[i])]
    /\ b_pc' = "archive"
    /\ UNCHANGED <<b_store, b_articles, b_months, b_sitemap>>
    /\ UNCHANGED <<fetchVars, truncVars>>

\* build_site, lines 79-93: the articles of each month, in order.
BuildArchive ==
    /\ b_pc = "archive"
    /\ b_months' = [m \in {MonthKey(b_articles[i]) : i \in 1..Len(b_articles)} |->
                      SelectSeq(b_articles, LAMBDA a : MonthKey(a) = m)]
    /\ b_pc' = "sitemap"
    /\ UNCHANGED <<b_store, b_articles, b_pages, b_page_of, b_sitemap>>
    /\ UNCHANGED <<fetchVars, truncVars>>

\* build_site, lines 95-110
BuildSitemap ==
    /\ b_pc = "sitemap"
    /\ b_sitemap' = << [url |-> <<SITE_URL, "">>, priority |-> "1.0"],
                       [url |-> <<SITE_URL, "archive.html">>, priority |-> "0.8"] >>
                    \o [i \in 1..Len(b_articles) |-> SitemapEntry(b_articles[i])]
    /\ b_pc' = "built"
    /\ UNCHANGED <<b_store, b_articles, b_pages, b_page_of, b_months>>
    /\ UNCHANGED <<fetchVars, truncVars>>

NextBuild ==
    \/ LoadArticles
    \/ BuildArticlePages
    \/ BuildArchive
    \/ BuildSitemap

SpecBuild == InitBuild /\ [][NextBuild]_vars

\* C9: the sitemap lists the root (1.0), the archive page (0.8) and, for
\* every article, the address of the page file written for it (0.6), and as
\* many article entries as there are articles.
C9_SitemapListsPages ==
    b_pc = "built" =>
        /\ Len(b_sitemap) = Len(b_articles) + 2
        /\ b_sitemap[1] = [url |-> <<SITE_URL, "">>, priority |-> "1.0"]
        /\ b_sitemap[2] = [url |-> <<SITE_URL, "archive.html">>, priority |-> "0.8"]
        /\ \A i \in 1..Len(b_articles) :
             /\ b_page_of[i] \in DOMAIN b_pages
             /\ \E k \in 3..Len(b_sitemap) :
                  /\ b_sitemap[k].url = ServedAt(b_page_of[i])
                  /\ b_sitemap[k].priority = "0.6"

\* C10: load_articles gives every readable article of the store, by date
\* descending, those without a valid date after all those with one.
C10_SortedByDate ==
    b_pc # "load" =>
        /\ Len(b_articles) = Cardinality({f \in b_store : ~f.malformed})
        /\ \A f \in b_store : ~f.malformed =>
             \E i \in 1..Len(b_articles) : b_articles[i] = LoadedArticle(f)
        /\ \A i, j \in 1..Len(b_articles) : i < j =>
             LET di == Get(b_articles[i], "date", <<>>)
                 dj == Get(b_articles[j], "date", <<>>)
             IN /\ IsoParses(dj) => IsoParses(di)
                /\ (IsoParses(di) /\ IsoParses(dj)) => ~StrLess(di, dj)
====
